---- MODULE Spec2Model ----
(***************************************************************************)
(* Model of the servo controller of src/fastapi_app.py (ServoController).  *)
(*                                                                         *)
(* Angles are integers in ticks of 1/TicksPerDeg degree, chosen so that    *)
(* one paced step (dps * dt) is a whole number of ticks for every integer  *)
(* speed; speeds are integers in deg/s.  Float rounding is not modelled.   *)
(*                                                                         *)
(* Threads: the asyncio event loop runs one callback at a time (variable   *)
(* running names the motion task that is in the middle of a step, 0 when   *)
(* the loop is between callbacks); stop() runs off the loop (executor      *)
(* thread, signal handler, atexit hook), so its statements interleave with *)
(* the loop's, also with a motion step that is between its driver lookup   *)
(* and the completion of its hardware write.                               *)
(***************************************************************************)
EXTENDS Integers, Sequences, FiniteSets, TLC

(* ---------------------------- bounds ---------------------------------- *)
MaxOps == 2
MaxFaults == 1
MaxSteps == 3

(* ----------------------- program constants ---------------------------- *)
PWM_FREQUENCY == 50
MIN_US == 500
MID_US == 1500
MAX_US == 2500
MIN_DEG == 0
MAX_DEG == 270
SPEED_MIN_DPS == 10
SPEED_MAX_DPS == 270
SPEED_DEF_DPS == 90
DT_MS == 20
EPS_INV == 5
CH_PROTO_MAX == 15

TicksPerDeg == 1000 \div DT_MS
MinA == MIN_DEG * TicksPerDeg
MaxA == MAX_DEG * TicksPerDeg
CENTER_ANGLE == MaxA \div 2
EPS == TicksPerDeg \div EPS_INV

(* an absent dictionary entry, an absent value *)
NONE == 0 - 1

(* The board layout, reduced to one board (0x40) with two channels: the    *)
(* controller treats every channel alike, and two channels of one board    *)
(* share everything channels can share (the driver, the bus, the lock).    *)
BOARD_CHANNEL_LAYOUT == (64 :> <<0, 1>>)

(* ------------------------------ helpers ------------------------------- *)
Min2(a, b) == IF a < b THEN a ELSE b
Max2(a, b) == IF a > b THEN a ELSE b
Abs(x) == IF x < 0 THEN -x ELSE x

RECURSIVE SortedSeqDesc(_)
SortedSeqDesc(S) ==
  IF S = {} THEN <<>>
  ELSE LET m == CHOOSE x \in S : \A y \in S : x >= y
       IN <<m>> \o SortedSeqDesc(S \ {m})

RECURSIVE SortedSeq(_)
SortedSeq(S) ==
  IF S = {} THEN <<>>
  ELSE LET m == CHOOSE x \in S : \A y \in S : x <= y
       IN <<m>> \o SortedSeq(S \ {m})

RECURSIVE FlattenBoards(_, _)
FlattenBoards(layout, addrs) ==
  IF addrs = <<>> THEN <<>>
  ELSE [i \in 1..Len(layout[Head(addrs)]) |-> <<Head(addrs), layout[Head(addrs)][i]>>]
       \o FlattenBoards(layout, Tail(addrs))

(* _build_channel_map: logical id -> <<address, local channel>>, ids from 0 *)
BuildChannelMap(layout) ==
  LET pairs == FlattenBoards(layout, SortedSeq(DOMAIN layout))
  IN [g \in 0..(Len(pairs) - 1) |-> pairs[g + 1]]

CHANNEL_MAP == BuildChannelMap(BOARD_CHANNEL_LAYOUT)
Channels == DOMAIN CHANNEL_MAP
Addrs == {CHANNEL_MAP[c][1] : c \in Channels}
AddrOf(c) == CHANNEL_MAP[c][1]

clamp_angle_raw(a) == a
clamp_angle(a) == Max2(MinA, Min2(MaxA, a))
ClampSpeedRaw(dps) == dps
ClampSpeed(dps) == Max2(SPEED_MIN_DPS, Min2(SPEED_MAX_DPS, dps))

(* Exact fractions [n, d] stand for the floats of the conversions; the    *)
(* products are reduced crosswise so that they stay within 32 bits.        *)
Gcd[a \in Nat, b \in Nat] == IF b = 0 THEN a ELSE Gcd[b, a % b]
Fracs == [n : Int, d : Nat]
Frac[n \in Int, d \in Nat] ==
  LET g == Gcd[Abs(n), d] IN [n |-> n \div g, d |-> d \div g]
MulFrac[x \in Fracs, y \in Fracs] ==
  LET g1 == Gcd[Abs(x.n), y.d]
      g2 == Gcd[Abs(y.n), x.d]
  IN [n |-> (x.n \div g1) * (y.n \div g2), d |-> (x.d \div g2) * (y.d \div g1)]
(* int(): truncation towards zero *)
Trunc[x \in Fracs] == IF x.n >= 0 THEN x.n \div x.d ELSE -((-x.n) \div x.d)

angle_to_us_unclamped(a, min_us, max_us, max_deg) ==
  Frac[min_us * max_deg + (max_us - min_us) * a, max_deg]
(* angle_to_us: min_us + (max_us - min_us) * (a / max_deg), with a the     *)
(* angle clamped to [MIN_DEG, max_deg]; the result in microseconds         *)
angle_to_us(a, min_us, max_us, max_deg) ==
  Frac[min_us * max_deg + (max_us - min_us) * Max2(MinA, Min2(max_deg, a)), max_deg]
(* angle_to_us of the command-line tools: the same, clamping to [0.0, max_deg] *)
angle_to_us_sweep(a, min_us, max_us, max_deg) ==
  Frac[min_us * max_deg + (max_us - min_us) * Max2(0, Min2(max_deg, a)), max_deg]
us_to_duty16_rounded(us, freq) ==
  LET x == MulFrac[MulFrac[us, Frac[freq, 1000000]], Frac[65535, 1]]
      duty == IF x.n >= 0 THEN (2 * x.n + x.d) \div (2 * x.d)
              ELSE 0 - ((x.d - 2 * x.n) \div (2 * x.d))
  IN Max2(0, Min2(65535, duty))
us_to_duty16_unclamped(us, freq) ==
  Trunc[MulFrac[MulFrac[us, Frac[freq, 1000000]], Frac[65535, 1]]]
(* us_to_duty16: int((us / 1_000_000) * freq * 65535), clamped to 0..65535 *)
us_to_duty16(us, freq) ==
  LET duty == Trunc[MulFrac[MulFrac[us, Frac[freq, 1000000]], Frac[65535, 1]]]
  IN Max2(0, Min2(65535, duty))
(* us_to_duty of the command-line tools:                                   *)
(* int((us / 1_000_000) / (1 / freq) * 4096), clamped to 0..4095           *)
us_to_duty(us, freq) ==
  LET duty == Trunc[MulFrac[MulFrac[us, Frac[freq, 1000000]], Frac[4096, 1]]]
  IN Max2(0, Min2(4095, duty))
(* _write_angle_async: angle -> us -> duty                                 *)
DutyOfAngle(a) == us_to_duty16(angle_to_us(a, MIN_US, MAX_US, MaxA), PWM_FREQUENCY)

(* one pass of the while loop of _move_to_angle, up to its write          *)
StepTicks(dps) == (dps * TicksPerDeg * DT_MS) \div 1000
MoveIterOvershoot(cur, target, dps) ==
  IF Abs(target - cur) <= EPS THEN [cur |-> target, fin |-> TRUE]
  ELSE [cur |-> (IF target > cur THEN cur + StepTicks(dps) ELSE cur - StepTicks(dps)),
        fin |-> FALSE]
MoveIterStopShort(cur, target, dps) ==
  IF Abs(target - cur) <= StepTicks(dps) THEN [cur |-> cur, fin |-> TRUE]
  ELSE [cur |-> (IF target > cur THEN cur + StepTicks(dps) ELSE cur - StepTicks(dps)),
        fin |-> FALSE]
MoveIter(cur, target, dps) ==
  LET err == target - cur
      step == StepTicks(dps)
  IN IF Abs(err) <= EPS THEN [cur |-> target, fin |-> TRUE]
     ELSE IF Abs(err) < step THEN [cur |-> target, fin |-> FALSE]
     ELSE [cur |-> (IF err > 0 THEN cur + step ELSE cur - step), fin |-> FALSE]


(* ------------------------------ inputs -------------------------------- *)
(* requested angles (ticks), requested speeds (deg/s), requested channels  *)
NearAngles == {CENTER_ANGLE + 100, CENTER_ANGLE + 190}
AngleInputs == {CENTER_ANGLE + 100, MaxA + 500, MinA - 500}
(* the requests tried on channel c: one out-of-range side per channel      *)
AnglesFor(c) ==
  IF c % 2 = 1 THEN AngleInputs \ {MaxA + 500} ELSE AngleInputs \ {MinA - 500}
SpeedInputs == {5, 45, 400}
ChannelInputs == Channels \cup {7, 16}

(* ------------------------------- state -------------------------------- *)
VARIABLES
  i2c,        \* _i2c: TRUE when the bus connection is open, FALSE when None
  pcas,       \* _pcas: address -> "none" (no entry) | "live" | "dead" (de-initialised)
  angles,     \* _angles: channel -> ticks, NONE when the entry is absent
  speeds,     \* _speeds: channel -> deg/s, NONE when the entry is absent
  moveTasks,  \* _move_tasks: channel -> task id, 0 when the entry is absent
  busLock,    \* _bus_lock: id of the task holding it, 0 when free
  tasks,      \* the asyncio tasks running _move_to_angle, by id
  running,    \* the task whose step the event loop is executing, 0 between callbacks
  stopPc,     \* position of the call of stop() in progress, "idle" when none
  stopK,      \* stop(): index of the next channel of its zero-write loop
  stopExc,    \* stop(): TRUE when the zero-write loop raised
  hw,         \* per channel, the duty last written and the angle last written
  ret,        \* outcome of the facade call that has just returned
  started,    \* start() has run
  stopCalled, \* stop() has been called
  ops,        \* number of calls made (facade operations and stop())
  faults      \* number of bus failures injected

vars == <<i2c, pcas, angles, speeds, moveTasks, busLock, tasks, running,
          stopPc, stopK, stopExc, hw, ret, started, stopCalled, ops, faults>>

(* Task objects are named by ids; the ids c * Slots + 1 .. (c + 1) * Slots  *)
(* name the tasks launched for channel c.                                  *)
NumChannels == Cardinality(Channels)
Slots == MaxOps
TaskIds == 1..(NumChannels * Slots)
IdsOf(c) == (c * Slots + 1)..((c + 1) * Slots)

(* A task: st is its position ("created": not yet run, "writing": in the   *)
(* middle of a step, between the driver lookup and the end of the write,   *)
(* "sleeping", "done"); target, cur, dps are the coroutine's arguments and *)
(* locals; cancel is the pending cancellation request; p is the driver the *)
(* step looked up ("torn": de-initialised by stop() since the lookup); fin *)
(* tells that the step is the converged one.  History:                     *)
(* n counts the task's writes, from is the angle it started from, end is   *)
(* how it ended, reinit counts its re-initialisation attempts, rec tells   *)
(* where its recovery block ended (one of Outcomes), sup tells             *)
(* that it replaced a move that had already written.                       *)
FreeTask ==
  [st |-> "free", ch |-> 0, target |-> 0, cur |-> 0, dps |-> 0, cancel |-> FALSE,
   n |-> 0, p |-> "none", fin |-> FALSE, end |-> "none", reinit |-> 0,
   sup |-> FALSE, from |-> 0, rec |-> "none"]
NewTask(c, target, sup) ==
  [FreeTask EXCEPT !.st = "created", !.ch = c, !.target = target, !.sup = sup]

Pending(t) == t.st \in {"created", "sleeping", "writing"}

NoRet == [op |-> "none", ch |-> NONE, arg |-> NONE, err |-> 0, val |-> NONE]
NoWrite == [duty |-> NONE, ang |-> NONE]

Init ==
  /\ i2c = FALSE
  /\ pcas = [a \in Addrs |-> "none"]
  /\ angles = [c \in Channels |-> NONE]
  /\ speeds = [c \in Channels |-> NONE]
  /\ moveTasks = [c \in Channels |-> 0]
  /\ busLock = 0
  /\ tasks = [id \in TaskIds |-> FreeTask]
  /\ running = 0
  /\ stopPc = "idle"
  /\ stopK = 0
  /\ stopExc = FALSE
  /\ hw = [c \in Channels |-> NoWrite]
  /\ ret = NoRet
  /\ started = FALSE
  /\ stopCalled = FALSE
  /\ ops = 0
  /\ faults = 0

(* ----------------------------- lifecycle ------------------------------ *)
(* start(): open the bus, one driver per address, then per channel the     *)
(* centre pulse written directly (no lock) and the state initialised.  It  *)
(* is the start-up hook: it runs before any call is served.                *)
StartWrite == [duty |-> us_to_duty16(Frac[MID_US, 1], PWM_FREQUENCY), ang |-> CENTER_ANGLE]
Start ==
  /\ ~started
  /\ ~stopCalled
  /\ running = 0 /\ ops = 0
  /\ started' = TRUE
  /\ i2c' = TRUE
  /\ pcas' = [a \in Addrs |-> "live"]
  /\ hw' = [c \in Channels |-> StartWrite]
  /\ angles' = [c \in Channels |-> CENTER_ANGLE]
  /\ speeds' = [c \in Channels |-> SPEED_DEF_DPS]
  /\ UNCHANGED <<moveTasks, busLock, tasks, running, stopPc, stopK, stopExc,
                 ret, stopCalled, ops, faults>>

(* --------------------------- channel checks --------------------------- *)
(* _validate_channel: 0 when valid, else the HTTP status raised            *)
ValidateChannelLookupFirst(c) ==
  IF c \notin Channels THEN 404
  ELSE IF ~(0 <= c /\ c <= CH_PROTO_MAX) THEN 400
  ELSE 0
ValidateChannel(c) ==
  IF ~(0 <= c /\ c <= CH_PROTO_MAX) THEN 400
  ELSE IF c \notin Channels THEN 404
  ELSE 0

Rejected(op, c, arg) ==
  [op |-> op, ch |-> c, arg |-> NONE, err |-> ValidateChannel(c), val |-> NONE]
Returned(op, c, arg, val) ==
  [op |-> op, ch |-> c, arg |-> arg, err |-> 0, val |-> val]

(* ------------------------------ set_speed ----------------------------- *)
SetSpeedAll(c, dps) ==
  /\ running = 0
  /\ ops < MaxOps
  /\ ops' = ops + 1
  /\ IF ValidateChannel(c) # 0
       THEN /\ ret' = Rejected("set_speed", c, dps)
            /\ UNCHANGED speeds
       ELSE /\ speeds' = [d \in Channels |-> ClampSpeed(dps)]
            /\ ret' = Returned("set_speed", c, dps, ClampSpeed(dps))
  /\ UNCHANGED <<i2c, pcas, angles, moveTasks, busLock, tasks, running,
                 stopPc, stopK, stopExc, hw, started, stopCalled, faults>>
SetSpeed(c, dps) ==
  /\ running = 0
  /\ ops < MaxOps
  /\ ops' = ops + 1
  /\ IF ValidateChannel(c) # 0
       THEN /\ ret' = Rejected("set_speed", c, dps)
            /\ UNCHANGED speeds
       ELSE /\ speeds' = [speeds EXCEPT ![c] = ClampSpeed(dps)]
            /\ ret' = Returned("set_speed", c, dps, ClampSpeed(dps))
  /\ UNCHANGED <<i2c, pcas, angles, moveTasks, busLock, tasks, running,
                 stopPc, stopK, stopExc, hw, started, stopCalled, faults>>

(* ------------------------------ set_angle ----------------------------- *)
(* A finished task that nothing refers to any more is dropped.             *)
Collect(T, M) ==
  [id \in TaskIds |->
     IF T[id].st = "done" /\ (\A c \in Channels : M[c] # id) THEN FreeTask ELSE T[id]]

(* t.cancel(): a task that is waiting (at its sleep, or not yet run) will   *)
(* only get CancelledError when resumed, so its locals are dead from here   *)
(* on; a task in the middle of a step keeps them until its next wait.      *)
Cancelled(t) ==
  IF t.st \in {"created", "sleeping"}
    THEN [FreeTask EXCEPT !.st = t.st, !.ch = t.ch, !.cancel = TRUE]
    ELSE [t EXCEPT !.cancel = TRUE]
CancelRequestNone(T, id) == T
CancelRequest(T, id) ==
  IF id # 0 /\ T[id].st # "done" THEN [T EXCEPT ![id] = Cancelled(T[id])] ELSE T

(* _cancel_move on the pair S = [t |-> tasks, m |-> _move_tasks]: pop the   *)
(* entry, and request cancellation unless the task is done                 *)
CancelMoveKeepEntry(S, c) == [t |-> CancelRequest(S.t, S.m[c]), m |-> S.m]
CancelMovePopOnly(S, c) == [t |-> S.t, m |-> [S.m EXCEPT ![c] = 0]]
CancelMove(S, c) ==
  [t |-> CancelRequest(S.t, S.m[c]), m |-> [S.m EXCEPT ![c] = 0]]

FreeIds(T, c) == {id \in IdsOf(c) : T[id].st = "free"}
FirstFree(T, c) == CHOOSE id \in FreeIds(T, c) : \A j \in FreeIds(T, c) : id <= j

(* the recorded task of channel c is a move that has written and not ended *)
InFlight(S, c) == S.m[c] # 0 /\ Pending(S.t[S.m[c]]) /\ S.t[S.m[c]].n > 0

(* the body of set_angle after validation, on a pair S as above; the new   *)
(* task gets an id that was free before the call                           *)
LaunchMove(S, c, target) ==
  LET C == CancelMove(S, c)
      id == FirstFree(S.t, c)
  IN [t |-> [C.t EXCEPT ![id] = NewTask(c, target, InFlight(S, c))],
      m |-> [C.m EXCEPT ![c] = id]]

SetAngle(c, a) ==
  /\ running = 0
  /\ ops < MaxOps
  /\ ops' = ops + 1
  /\ IF ValidateChannel(c) # 0
       THEN /\ ret' = Rejected("set_angle", c, a)
            /\ UNCHANGED <<tasks, moveTasks>>
       ELSE /\ FreeIds(tasks, c) # {}
            /\ LET S == LaunchMove([t |-> tasks, m |-> moveTasks], c, clamp_angle(a))
               IN /\ tasks' = Collect(S.t, S.m)
                  /\ moveTasks' = S.m
            /\ ret' = Returned("set_angle", c, a, clamp_angle(a))
  /\ UNCHANGED <<i2c, pcas, angles, speeds, busLock, running,
                 stopPc, stopK, stopExc, hw, started, stopCalled, faults>>

(* ------------------------------ center_all ---------------------------- *)
(* set_angle(ch, CENTER_ANGLE) for every channel, in channel order          *)
LaunchFirstOnly(S, c, target) == LaunchMove(S, c, target)
RECURSIVE LaunchAll(_, _, _)
LaunchAll(S, c, target) ==
  IF c >= NumChannels THEN S
  ELSE LaunchAll(LaunchMove(S, c, target), c + 1, target)

CenterAll ==
  /\ running = 0
  /\ ops < MaxOps
  /\ ops' = ops + 1
  /\ \A c \in Channels : FreeIds(tasks, c) # {}
  /\ LET S == LaunchAll([t |-> tasks, m |-> moveTasks], 0, CENTER_ANGLE)
     IN /\ tasks' = Collect(S.t, S.m)
        /\ moveTasks' = S.m
  /\ ret' = Returned("center_all", NONE, NONE, CENTER_ANGLE)
  /\ UNCHANGED <<i2c, pcas, angles, speeds, busLock, running,
                 stopPc, stopK, stopExc, hw, started, stopCalled, faults>>

(* ------------------------------ release_all --------------------------- *)
CancelAllNone(S, c) == S
RECURSIVE CancelAll(_, _)
CancelAll(S, c) ==
  IF c >= NumChannels THEN S ELSE CancelAll(CancelMove(S, c), c + 1)

(* A zero write on channel c can fail: always when no driver is registered *)
(* (_ensure_pca raises), possibly through a de-initialised driver, and by  *)
(* an injected bus failure through a usable one.                           *)
CanFail(c) == pcas[AddrOf(c)] # "live" \/ faults < MaxFaults
CanSucceed(c) == pcas[AddrOf(c)] # "none"
Injected(c) == pcas[AddrOf(c)] = "live"

(* release_all, with f the channel whose write raises (NumChannels: none): *)
(* all moves are cancelled, then the channels before f are zeroed.         *)
ReleaseAll(f) ==
  /\ running = 0
  /\ ops < MaxOps
  /\ ops' = ops + 1
  /\ \A c \in Channels : c < f => CanSucceed(c)
  /\ f \in Channels => CanFail(f)
  /\ faults' = IF f \in Channels /\ Injected(f) THEN faults + 1 ELSE faults
  /\ LET S == CancelAll([t |-> tasks, m |-> moveTasks], 0)
     IN /\ tasks' = Collect(S.t, S.m)
        /\ moveTasks' = S.m
  /\ hw' = [c \in Channels |-> IF c < f THEN [duty |-> 0, ang |-> 0] ELSE hw[c]]
  /\ angles' = [c \in Channels |-> IF c < f THEN 0 ELSE angles[c]]
  /\ ret' = [op |-> "release_all", ch |-> NONE, arg |-> NONE,
             err |-> (IF f \in Channels THEN 500 ELSE 0), val |-> NONE]
  /\ UNCHANGED <<i2c, pcas, speeds, busLock, running, stopPc, stopK, stopExc,
                 started, stopCalled>>

(* ------------------------------ motion task --------------------------- *)
(* The event loop resumes a task: on its first run it reads the stored     *)
(* angle and speed; it computes the next angle, takes the bus lock and     *)
(* looks the board's driver up.                                            *)
ReadAngle(c) == IF angles[c] = NONE THEN CENTER_ANGLE ELSE angles[c]
ReadSpeed(c) ==
  LET d == IF speeds[c] = NONE THEN SPEED_DEF_DPS ELSE speeds[c]
  IN IF d <= 0 THEN SPEED_MIN_DPS ELSE d

TaskDpsLive(t) == ReadSpeed(t.ch)
TaskDps(t) == IF t.st = "created" THEN ReadSpeed(t.ch) ELSE t.dps
TaskCur(t) == IF t.st = "created" THEN ReadAngle(t.ch) ELSE t.cur

TaskBegin(id) ==
  /\ running = 0
  /\ tasks[id].st \in {"created", "sleeping"}
  /\ ~tasks[id].cancel
  /\ busLock = 0
  /\ LET t == tasks[id]
         it == MoveIter(TaskCur(t), t.target, TaskDps(t))
     IN tasks' = [tasks EXCEPT ![id] =
                    [t EXCEPT !.st = "writing", !.cur = it.cur, !.fin = it.fin,
                              !.dps = TaskDps(t), !.p = pcas[AddrOf(t.ch)],
                              !.from = IF t.st = "created" THEN TaskCur(t) ELSE t.from]]
  /\ busLock' = id
  /\ running' = id
  /\ ret' = NoRet
  /\ UNCHANGED <<i2c, pcas, angles, speeds, moveTasks, stopPc, stopK, stopExc,
                 hw, started, stopCalled, ops, faults>>

(* A task whose cancellation was requested gets CancelledError when the    *)
(* loop resumes it (at its sleep, or before its first run) and ends.       *)
TaskCancelled(id) ==
  /\ running = 0
  /\ tasks[id].st \in {"created", "sleeping"}
  /\ tasks[id].cancel
  /\ tasks' = Collect([tasks EXCEPT ![id].st = "done", ![id].end = "cancelled"], moveTasks)
  /\ ret' = NoRet
  /\ UNCHANGED <<i2c, pcas, angles, speeds, moveTasks, busLock, running,
                 stopPc, stopK, stopExc, hw, started, stopCalled, ops, faults>>

(* The hardware write succeeds: the angle is stored, the lock released,    *)
(* and the task ends (converged) or sleeps for the step period, where a    *)
(* cancellation requested during the step reaches it.                      *)
AfterWrite(t) ==
  IF t.fin THEN [t EXCEPT !.st = "done", !.end = "converged", !.n = t.n + 1, !.p = "none"]
  ELSE IF t.cancel THEN Cancelled([t EXCEPT !.st = "sleeping"])
  ELSE [t EXCEPT !.st = "sleeping", !.n = t.n + 1, !.p = "none"]
TaskWriteOk(id) ==
  /\ running = id
  /\ tasks[id].st = "writing"
  /\ tasks[id].p # "none"
  /\ LET t == tasks[id]
     IN /\ hw' = [hw EXCEPT ![t.ch] = [duty |-> DutyOfAngle(t.cur), ang |-> t.cur]]
        /\ angles' = [angles EXCEPT ![t.ch] = t.cur]
        /\ tasks' = Collect([tasks EXCEPT ![id] = AfterWrite(t)], moveTasks)
  /\ busLock' = 0
  /\ running' = 0
  /\ UNCHANGED <<i2c, pcas, speeds, moveTasks, stopPc, stopK, stopExc,
                 ret, started, stopCalled, ops, faults>>

(* The write raises (OSError from the bus, RuntimeError from _ensure_pca): *)
(* the lock is released, the angle is not stored, and the handler makes    *)
(* its recovery attempt, after which the task ends.                        *)
(* Outcome of the recovery block: "skip" (no bus: return), "ok" (driver    *)
(* replaced), "deinit_failed" (existing.deinit() raised), "init_failed"    *)
(* (the new driver could not be created or configured)                     *)
Outcomes == {"skip", "ok", "deinit_failed", "init_failed"}
RecoveryOutcomes(existing) ==
  IF ~i2c THEN {"skip"}
  ELSE {"ok", "init_failed"} \cup (IF existing # "none" THEN {"deinit_failed"} ELSE {})
RecoveredDropped(existing, outcome) ==
  IF outcome = "ok" THEN "live" ELSE IF outcome = "init_failed" THEN "none" ELSE existing
Recovered(existing, outcome) ==
  CASE outcome = "ok" -> "live"
    [] outcome = "init_failed" -> (IF existing = "none" THEN "none" ELSE "dead")
    [] OTHER -> existing
Attempts(outcome) == IF outcome = "skip" THEN 0 ELSE 1

(* the stored angles after a step whose write raised *)
FaultAnglesStored(t) == [angles EXCEPT ![t.ch] = t.cur]
FaultAngles(t) == angles

TaskFault(id, outcome, how) ==
  /\ running = id
  /\ tasks[id].st = "writing"
  /\ LET t == tasks[id]
         a == AddrOf(t.ch)
     IN /\ outcome \in RecoveryOutcomes(pcas[a])
        /\ pcas' = [pcas EXCEPT ![a] = Recovered(pcas[a], outcome)]
        /\ angles' = FaultAngles(t)
        /\ tasks' = Collect([tasks EXCEPT ![id] =
                       [t EXCEPT !.st = "done", !.end = how, !.p = "none",
                                 !.reinit = Attempts(outcome),
                                 !.rec = outcome]], moveTasks)
  /\ busLock' = 0
  /\ running' = 0
  /\ UNCHANGED <<i2c, speeds, moveTasks, stopPc, stopK, stopExc,
                 hw, ret, started, stopCalled, ops>>

(* an injected bus failure on a write through a usable driver *)
TaskWriteFail(id, outcome) ==
  /\ tasks[id].p = "live"
  /\ faults < MaxFaults
  /\ faults' = faults + 1
  /\ TaskFault(id, outcome, "faulted")

(* no driver registered (_ensure_pca raises), or a write through a         *)
(* de-initialised driver that fails                                        *)
TaskWriteBroken(id, outcome) ==
  /\ tasks[id].p \in {"none", "dead", "torn"}
  /\ faults' = faults
  /\ TaskFault(id, outcome, "broken")

(* -------------------------------- stop() ------------------------------- *)
(* stop() runs off the event loop; each action below is one of its steps.  *)
StopCall ==
  /\ stopPc = "idle"
  /\ ops < MaxOps
  /\ ops' = ops + 1
  /\ stopPc' = "cancel"
  /\ stopExc' = FALSE
  /\ stopCalled' = TRUE
  /\ UNCHANGED <<i2c, pcas, angles, speeds, moveTasks, busLock, tasks, running,
                 stopK, hw, ret, started, faults>>

(* for ch, t in list(self._move_tasks.items()): t.cancel() *)
StopCancel ==
  /\ stopPc = "cancel"
  /\ tasks' = [id \in TaskIds |->
                 IF \E c \in Channels : moveTasks[c] = id
                   THEN CancelRequest(tasks, id)[id] ELSE tasks[id]]
  /\ stopPc' = "clear"
  /\ UNCHANGED <<i2c, pcas, angles, speeds, moveTasks, busLock, running,
                 stopK, stopExc, hw, ret, started, stopCalled, ops, faults>>

(* self._move_tasks.clear(); if self._pcas: ... *)
StopClear ==
  /\ stopPc = "clear"
  /\ moveTasks' = [c \in Channels |-> 0]
  /\ tasks' = Collect(tasks, [c \in Channels |-> 0])
  /\ stopPc' = IF \E a \in Addrs : pcas[a] # "none" THEN "zero" ELSE "i2c"
  /\ stopK' = 0
  /\ UNCHANGED <<i2c, pcas, angles, speeds, busLock, running,
                 stopExc, hw, ret, started, stopCalled, ops, faults>>

(* self._write_duty(ch, 0), without the bus lock *)
StopZeroOk ==
  /\ stopPc = "zero"
  /\ CanSucceed(stopK)
  /\ hw' = [hw EXCEPT ![stopK].duty = 0]
  /\ stopK' = stopK + 1
  /\ stopPc' = IF stopK + 1 = NumChannels THEN "deinit" ELSE "zero"
  /\ UNCHANGED <<i2c, pcas, angles, speeds, moveTasks, busLock, tasks, running,
                 stopExc, ret, started, stopCalled, ops, faults>>

(* the zero write raises: the loop is left for the finally block *)
StopZeroFail ==
  /\ stopPc = "zero"
  /\ CanFail(stopK)
  /\ faults' = IF Injected(stopK) THEN faults + 1 ELSE faults
  /\ stopExc' = TRUE
  /\ stopPc' = "deinit"
  /\ UNCHANGED <<i2c, pcas, angles, speeds, moveTasks, busLock, tasks, running,
                 stopK, hw, ret, started, stopCalled, ops>>

(* finally: every registered driver is de-initialised (errors logged) and  *)
(* _pcas cleared; a pending exception of the zero-write loop then leaves   *)
(* stop().  A usable driver that a motion step has looked up and not yet   *)
(* written through is torn down under it.                                  *)
StopDeinit ==
  /\ stopPc = "deinit"
  /\ pcas' = [a \in Addrs |-> "none"]
  /\ tasks' = [id \in TaskIds |->
                 IF tasks[id].st = "writing" /\ tasks[id].p = "live"
                   THEN [tasks[id] EXCEPT !.p = "torn"] ELSE tasks[id]]
  /\ stopPc' = IF stopExc THEN "idle" ELSE "i2c"
  /\ UNCHANGED <<i2c, angles, speeds, moveTasks, busLock, running,
                 stopK, stopExc, hw, ret, started, stopCalled, ops, faults>>

(* if self._i2c: self._i2c.deinit(); self._i2c = None *)
StopI2c ==
  /\ stopPc = "i2c"
  /\ i2c' = FALSE
  /\ stopPc' = "idle"
  /\ UNCHANGED <<pcas, angles, speeds, moveTasks, busLock, tasks, running,
                 stopK, stopExc, hw, ret, started, stopCalled, ops, faults>>

(* --------------------------- specifications --------------------------- *)
StopStep ==
  \/ StopCancel
  \/ StopClear
  \/ StopZeroOk
  \/ StopZeroFail
  \/ StopDeinit
  \/ StopI2c

TaskStep ==
  \/ \E id \in TaskIds : TaskCancelled(id)
  \/ \E id \in TaskIds : TaskWriteOk(id)

TaskFails ==
  \/ \E id \in TaskIds, o \in Outcomes : TaskWriteFail(id, o)
  \/ \E id \in TaskIds, o \in Outcomes : TaskWriteBroken(id, o)

Calls ==
  \/ \E c \in ChannelInputs, d \in SpeedInputs : SetSpeed(c, d)
  \/ \E c \in ChannelInputs : \E a \in AnglesFor(c) : SetAngle(c, a)
  \/ CenterAll
  \/ \E f \in 0..NumChannels : ReleaseAll(f)

(* The controller with every call, bus failures and stop(); a move is      *)
(* followed for MaxSteps steps.                                            *)
Next ==
  \/ Start
  \/ Calls
  \/ \E id \in TaskIds : tasks[id].n < MaxSteps /\ TaskBegin(id)
  \/ TaskStep
  \/ TaskFails
  \/ StopCall
  \/ StopStep

Spec == Init /\ [][Next]_vars

(* Moves only: after start, set_angle on valid channels with in-range      *)
(* targets and set_speed, no bus failure, no release_all, no stop(); every *)
(* move is followed to its end.  The event loop resumes every task that is *)
(* ready, and a blocking write returns.                                    *)
NextMoves ==
  \/ Start
  \/ \E c \in Channels, d \in SpeedInputs : started /\ SetSpeed(c, d)
  \/ \E c \in Channels, a \in NearAngles : started /\ SetAngle(c, a)
  \/ \E id \in TaskIds : TaskBegin(id)
  \/ TaskStep

FairMoves ==
  /\ Init
  /\ [][NextMoves]_vars
  /\ \A id \in TaskIds : WF_vars(TaskBegin(id) \/ TaskCancelled(id) \/ TaskWriteOk(id))

(* One move alone: the controller is started, channel 0 stores the angle   *)
(* from and the speed dps, and set_angle(0, target) has just launched its  *)
(* task; nothing else is called and no write fails.                        *)
MoveStarts == {0, CENTER_ANGLE, MaxA}
MoveTargets == {0, 90 * TicksPerDeg, CENTER_ANGLE + 5, MaxA}
MoveSpeeds == {SPEED_MIN_DPS, 37, SPEED_DEF_DPS, SPEED_MAX_DPS}
FirstChannel == CHOOSE c \in Channels : \A d \in Channels : c <= d

InitMove ==
  \E from \in MoveStarts, target \in MoveTargets, dps \in MoveSpeeds :
    LET c0 == FirstChannel
        id0 == FirstFree([id \in TaskIds |-> FreeTask], c0)
    IN /\ i2c = TRUE
       /\ pcas = [a \in Addrs |-> "live"]
       /\ angles = [c \in Channels |-> IF c = c0 THEN from ELSE CENTER_ANGLE]
       /\ speeds = [c \in Channels |-> IF c = c0 THEN dps ELSE SPEED_DEF_DPS]
       /\ moveTasks = [c \in Channels |-> IF c = c0 THEN id0 ELSE 0]
       /\ tasks = [id \in TaskIds |->
                     IF id = id0 THEN NewTask(c0, target, FALSE) ELSE FreeTask]
       /\ busLock = 0
       /\ running = 0
       /\ stopPc = "idle"
       /\ stopK = 0
       /\ stopExc = FALSE
       /\ hw = [c \in Channels |->
                  IF c = c0 THEN [duty |-> DutyOfAngle(from), ang |-> from]
                  ELSE StartWrite]
       /\ ret = Returned("set_angle", c0, target, target)
       /\ started = TRUE
       /\ stopCalled = FALSE
       /\ ops = MaxOps
       /\ faults = MaxFaults

NextMove ==
  \/ \E id \in TaskIds : TaskBegin(id)
  \/ \E id \in TaskIds : TaskWriteOk(id)

SpecMove == InitMove /\ [][NextMove]_vars /\ WF_vars(NextMove)

(* Shutdown: the controller is started and set_angle has launched a move   *)
(* on some of the channels; from there only the motion tasks run, bus      *)
(* writes may fail, and stop() is called, up to MaxOps times (ops counts   *)
(* the calls of stop()).                                                   *)
InitShutdown ==
  \E launched \in SUBSET Channels : \E target \in NearAngles :
    /\ i2c = TRUE
    /\ pcas = [a \in Addrs |-> "live"]
    /\ angles = [c \in Channels |-> CENTER_ANGLE]
    /\ speeds = [c \in Channels |-> SPEED_DEF_DPS]
    /\ moveTasks = [c \in Channels |->
                      IF c \in launched
                        THEN FirstFree([id \in TaskIds |-> FreeTask], c) ELSE 0]
    /\ tasks = [id \in TaskIds |->
                  IF \E c \in launched : id = FirstFree([j \in TaskIds |-> FreeTask], c)
                    THEN NewTask(CHOOSE c \in launched :
                                   id = FirstFree([j \in TaskIds |-> FreeTask], c),
                                 target, FALSE)
                    ELSE FreeTask]
    /\ busLock = 0
    /\ running = 0
    /\ stopPc = "idle"
    /\ stopK = 0
    /\ stopExc = FALSE
    /\ hw = [c \in Channels |-> StartWrite]
    /\ ret = NoRet
    /\ started = TRUE
    /\ stopCalled = FALSE
    /\ ops = 0
    /\ faults = 0

NextShutdown ==
  \/ \E id \in TaskIds : tasks[id].n < MaxSteps /\ TaskBegin(id)
  \/ TaskStep
  \/ TaskFails
  \/ StopCall
  \/ StopStep

SpecShutdown == InitShutdown /\ [][NextShutdown]_vars

(* The conversions alone: pulse widths (microseconds, also fractional,     *)
(* negative and longer than the period) and frequencies (Hz) are drawn     *)
(* from the sets below and converted; ret holds the call and its result.   *)
UsInputs ==
  {Frac[n, 1] : n \in {0 - 100, 0, 1, 499, 500, 1500, 2500, 10000,
                       19999, 20000, 20001, 40000, 1000000}}
    \cup {Frac[1, 2], Frac[3001, 2]}
FreqInputs == {PWM_FREQUENCY, 60, 200, 1000}

Duty16Call(us, freq) ==
  /\ ret' = [op |-> "us_to_duty16", ch |-> NONE, arg |-> <<us, freq>>,
             err |-> 0, val |-> us_to_duty16(us, freq)]
  /\ UNCHANGED <<i2c, pcas, angles, speeds, moveTasks, busLock, tasks, running,
                 stopPc, stopK, stopExc, hw, started, stopCalled, ops, faults>>

DutyCall(us, freq) ==
  /\ ret' = [op |-> "us_to_duty", ch |-> NONE, arg |-> <<us, freq>>,
             err |-> 0, val |-> us_to_duty(us, freq)]
  /\ UNCHANGED <<i2c, pcas, angles, speeds, moveTasks, busLock, tasks, running,
                 stopPc, stopK, stopExc, hw, started, stopCalled, ops, faults>>

NextDuty ==
  \/ \E us \in UsInputs, freq \in FreqInputs : Duty16Call(us, freq)
  \/ \E us \in UsInputs, freq \in FreqInputs : DutyCall(us, freq)

SpecDuty == Init /\ [][NextDuty]_vars

(* angle_to_us alone: two angles (degrees, also below 0 and above the      *)
(* range), a pulse range and a maximum angle are drawn from the sets       *)
(* below; ret holds the call and the results for the two angles.           *)
DegInputs == {0 - 10, 0, 1, 90, 135, 269, 270, 271, 400}
MaxDegInputs == {180, MAX_DEG}
UsRanges == {<<MIN_US, MAX_US>>, <<1000, 2000>>}

AngleToUsCall(a, b, r, max_deg) ==
  /\ ret' = [op |-> "angle_to_us", ch |-> NONE, arg |-> <<a, b, r[1], r[2], max_deg>>,
             err |-> 0,
             val |-> <<angle_to_us(a, r[1], r[2], max_deg),
                       angle_to_us(b, r[1], r[2], max_deg)>>]
  /\ UNCHANGED <<i2c, pcas, angles, speeds, moveTasks, busLock, tasks, running,
                 stopPc, stopK, stopExc, hw, started, stopCalled, ops, faults>>

AngleToUsSweepCall(a, b, r, max_deg) ==
  /\ ret' = [op |-> "angle_to_us_sweep", ch |-> NONE,
             arg |-> <<a, b, r[1], r[2], max_deg>>, err |-> 0,
             val |-> <<angle_to_us_sweep(a, r[1], r[2], max_deg),
                       angle_to_us_sweep(b, r[1], r[2], max_deg)>>]
  /\ UNCHANGED <<i2c, pcas, angles, speeds, moveTasks, busLock, tasks, running,
                 stopPc, stopK, stopExc, hw, started, stopCalled, ops, faults>>

NextAngle ==
  \/ \E a \in DegInputs, b \in DegInputs, r \in UsRanges, m \in MaxDegInputs :
       AngleToUsCall(a, b, r, m)
  \/ \E a \in DegInputs, b \in DegInputs, r \in UsRanges, m \in MaxDegInputs :
       AngleToUsSweepCall(a, b, r, m)

SpecAngle == Init /\ [][NextAngle]_vars

(* _build_channel_map alone: a layout table is a sequence of entries       *)
(* <<address, local channels>> in the order they are written, with         *)
(* distinct addresses; each board lists a local channel at most once.      *)
(* The mapping built from the table is held in ret.                        *)
BoardAddrs == {64, 65, 66}
LocalLists == {<<0, 1, 2, 3>>, <<0, 1>>, <<3, 1>>, <<5>>, <<>>}
LayoutTables ==
  {<<e>> : e \in BoardAddrs \X LocalLists}
    \cup {t \in {<<e, f>> : e \in BoardAddrs \X LocalLists,
                              f \in BoardAddrs \X LocalLists} : t[1][1] # t[2][1]}
(* the mapping object the table denotes (a dict: address -> local channels) *)
LayoutOf(table) ==
  [a \in {table[i][1] : i \in DOMAIN table} |->
     (CHOOSE e \in {table[i] : i \in DOMAIN table} : e[1] = a)[2]]

BuildCall(table) ==
  /\ ret' = [op |-> "_build_channel_map", ch |-> NONE, arg |-> table,
             err |-> 0, val |-> BuildChannelMap(LayoutOf(table))]
  /\ UNCHANGED <<i2c, pcas, angles, speeds, moveTasks, busLock, tasks, running,
                 stopPc, stopK, stopExc, hw, started, stopCalled, ops, faults>>

NextBuild == \E table \in LayoutTables : BuildCall(table)

SpecBuild == Init /\ [][NextBuild]_vars

(* current_state: returns the stored angles and speeds                     *)
CurrentState ==
  /\ running = 0
  /\ ops < MaxOps
  /\ ops' = ops + 1
  /\ ret' = [op |-> "current_state", ch |-> NONE, arg |-> NONE, err |-> 0,
             val |-> [angles |-> angles, speeds |-> speeds]]
  /\ UNCHANGED <<i2c, pcas, angles, speeds, moveTasks, busLock, tasks, running,
                 stopPc, stopK, stopExc, hw, started, stopCalled, faults>>

(* The started controller without bus failures and without stop():         *)
(* set_speed, set_angle and current_state on the channels, and the moves.   *)
NextFrame ==
  \/ Start
  \/ \E c \in ChannelInputs, d \in SpeedInputs : started /\ SetSpeed(c, d)
  \/ \E c \in ChannelInputs : \E a \in AnglesFor(c) : started /\ SetAngle(c, a)
  \/ started /\ CurrentState
  \/ \E id \in TaskIds : tasks[id].n < MaxSteps /\ TaskBegin(id)
  \/ TaskStep

SpecFrame == Init /\ [][NextFrame]_vars

(* ------------------------------ properties ---------------------------- *)
(* the task recorded for channel c ended on a failed write *)
FaultEnded(c) ==
  moveTasks[c] # 0 /\ tasks[moveTasks[c]].end \in {"faulted", "broken"}

C3_NoWriteAfterCancel ==
  [][\A id \in TaskIds : tasks[id].cancel => ~TaskWriteOk(id)]_vars

(* C4: every hardware write in progress (a motion step between taking the  *)
(* lock and the end of its write, stop() at its zero writes) is made by    *)
(* the holder of the bus lock, and no two writes are in progress at once.  *)
C4_WritesUnderLock ==
  LET stepping == {id \in TaskIds : tasks[id].st = "writing"}
  IN /\ \A id \in stepping : busLock = id
     /\ stopPc = "zero" => (busLock = 0 /\ stepping = {})
     /\ Cardinality(stepping) <= 1

(* C5: no motion step is writing through a driver that stop() has torn     *)
(* down under it, and once stop() has cleared the drivers none is          *)
(* registered again (start() is not called again).                         *)
C5_StopBeforeTeardown ==
  /\ \A id \in TaskIds : tasks[id].st = "writing" => tasks[id].p # "torn"
  /\ (stopCalled /\ stopPc \in {"i2c", "idle"}) =>
       \A a \in Addrs : pcas[a] = "none"

(* C6: with the controller started and stop() not called, a task ended by  *)
(* a bus failure has made exactly one re-initialisation attempt, and when  *)
(* exactly one bus failure has happened, on channel a, the task of another *)
(* channel b is not ended by a failed write.                               *)
C6_FaultIsolated ==
  (started /\ ~stopCalled) =>
    /\ \A id \in TaskIds : tasks[id].end = "faulted" => tasks[id].reinit = 1
    /\ \A a, b \in Channels :
         (a # b /\ faults = 1 /\ moveTasks[a] # 0
            /\ tasks[moveTasks[a]].end = "faulted")
           => ~(moveTasks[b] # 0 /\ tasks[moveTasks[b]].end = "broken")

C9_StepUsesStoredSpeed ==
  [][\A id \in TaskIds :
       (tasks[id].st = "sleeping" /\ tasks'[id].st = "writing")
         => tasks'[id].cur = MoveIter(tasks[id].cur, tasks[id].target,
                                      ReadSpeed(tasks[id].ch)).cur]_vars

(* C9, as the code behaves: a task reads the stored speed when it first    *)
(* runs and every later step advances by that speed, whatever set_speed    *)
(* has stored since.                                                       *)
C9_StepUsesInitialSpeed ==
  [][\A id \in TaskIds :
       /\ (tasks[id].st = "created" /\ tasks'[id].st = "writing")
            => tasks'[id].dps = ReadSpeed(tasks[id].ch)
       /\ (tasks[id].st = "sleeping" /\ tasks'[id].st = "writing")
            => /\ tasks'[id].dps = tasks[id].dps
               /\ tasks'[id].cur = MoveIter(tasks[id].cur, tasks[id].target,
                                            tasks[id].dps).cur]_vars

(* a later step of a move, taken after set_speed stored another speed, on  *)
(* which the two speeds lead to different angles                           *)
C9_Witness ==
  \E id \in TaskIds :
    /\ tasks[id].st = "writing" /\ tasks[id].n >= 1 /\ ~tasks[id].cancel
    /\ speeds[tasks[id].ch] # tasks[id].dps
    /\ tasks[id].cur # MoveIter(angles[tasks[id].ch], tasks[id].target,
                                ReadSpeed(tasks[id].ch)).cur

(* C10: set_speed on a valid channel stores and returns the speed clamped  *)
(* to [SPEED_MIN, SPEED_MAX]; after start every stored speed lies in that  *)
(* range, and the step of every running task is positive.                  *)
C10_SpeedClamped ==
  /\ (ret.op = "set_speed" /\ ret.err = 0) =>
       /\ ret.val = (IF ret.arg < SPEED_MIN_DPS THEN SPEED_MIN_DPS
                     ELSE IF ret.arg > SPEED_MAX_DPS THEN SPEED_MAX_DPS
                     ELSE ret.arg)
       /\ speeds[ret.ch] = ret.val
  /\ started => \A c \in Channels :
                  SPEED_MIN_DPS <= speeds[c] /\ speeds[c] <= SPEED_MAX_DPS
  /\ \A id \in TaskIds :
       tasks[id].st \in {"writing", "sleeping"} /\ ~tasks[id].cancel
         => StepTicks(tasks[id].dps) > 0

(* set_speed has just returned a value that differs from its argument *)
C10_Witness ==
  /\ started
  /\ ret.op = "set_speed" /\ ret.err = 0
  /\ ret.val # ret.arg
  /\ speeds[ret.ch] = ret.val

(* C1: under FairMoves, a task that is no longer the recorded one of its   *)
(* channel has its cancellation requested, and every channel's stored      *)
(* angle eventually equals the target of the most recent set_angle and     *)
(* stays there, with that move finished.                                   *)
C1_LatestTargetWins ==
  /\ [](\A id \in TaskIds :
          (Pending(tasks[id]) /\ moveTasks[tasks[id].ch] # id) => tasks[id].cancel)
  /\ \A c \in Channels :
       <>[](moveTasks[c] # 0 =>
              /\ tasks[moveTasks[c]].st = "done"
              /\ tasks[moveTasks[c]].end = "converged"
              /\ angles[c] = tasks[moveTasks[c]].target)

(* a move that replaced a move in flight has converged on its own target *)
C1_Witness ==
  \E c \in Channels :
    /\ moveTasks[c] # 0
    /\ tasks[moveTasks[c]].sup
    /\ tasks[moveTasks[c]].end = "converged"
    /\ angles[c] = tasks[moveTasks[c]].target
    /\ \A id \in IdsOf(c) : ~Pending(tasks[id])

(* C8: under SpecMove the task ends; it makes at most                     *)
(* ceil(|target - from| / step) + 2 writes, it ends converged with the     *)
(* target as its last write and as the stored angle, and the move from 0   *)
(* to 90 degrees at 90 deg/s takes 50 writes, give or take 2.              *)
CeilDiv(a, b) == (a + b - 1) \div b
C8_BoundedConvergence ==
  /\ [](\A id \in TaskIds :
          LET t == tasks[id]
          IN /\ t.st \in {"writing", "sleeping", "done"} =>
                  t.n <= CeilDiv(Abs(t.target - t.from), StepTicks(t.dps)) + 2
             /\ t.st = "done" =>
                  /\ t.end = "converged"
                  /\ hw[t.ch] = [duty |-> DutyOfAngle(t.target), ang |-> t.target]
                  /\ angles[t.ch] = t.target
                  /\ (t.from = 0 /\ t.target = 90 * TicksPerDeg /\ t.dps = SPEED_DEF_DPS)
                       => (48 <= t.n /\ t.n <= 52))
  /\ <>(\A id \in TaskIds : tasks[id].st \in {"free", "done"})

(* the move from 0 to 90 degrees at 90 deg/s has ended on its target *)
C8_Witness ==
  \E id \in TaskIds :
    /\ tasks[id].st = "done" /\ tasks[id].end = "converged"
    /\ tasks[id].from = 0 /\ tasks[id].target = 90 * TicksPerDeg
    /\ tasks[id].dps = SPEED_DEF_DPS
    /\ tasks[id].n >= 50
    /\ angles[tasks[id].ch] = tasks[id].target

(* C11: set_angle and set_speed with a channel outside 0..15 are rejected  *)
(* as out of range (400), with a channel inside 0..15 that is not          *)
(* configured as not found (404), and a call is rejected only for such a   *)
(* channel; the rejected call changes no stored angle, no stored speed, no *)
(* recorded task and no task (none is cancelled), and writes nothing.      *)
C11_RejectedCallChangesNothing ==
  /\ [](ret.op \in {"set_angle", "set_speed"} =>
          /\ ret.err = 400 <=> (ret.ch < 0 \/ ret.ch > 15)
          /\ ret.err = 404 <=> (0 <= ret.ch /\ ret.ch <= 15 /\ ret.ch \notin DOMAIN CHANNEL_MAP)
          /\ ret.err \in {0, 400, 404})
  /\ [][(ops' = ops + 1 /\ stopPc' = stopPc
           /\ ret'.op \in {"set_angle", "set_speed"} /\ ret'.err # 0)
          => UNCHANGED <<angles, speeds, moveTasks, tasks, hw, pcas, i2c, busLock>>]_vars

(* a call on channel 16 has just been rejected while a move is in flight   *)
C11_Witness ==
  /\ ret.op = "set_angle"
  /\ ret.err = 400
  /\ ret.ch = 16
  /\ \E c \in Channels :
       /\ moveTasks[c] # 0
       /\ tasks[moveTasks[c]].st = "sleeping"
       /\ ~tasks[moveTasks[c]].cancel

(* C12: after start every stored angle lies in [MIN_DEG, MAX_DEG]; the     *)
(* target of every launched task and the value set_angle returns lie in    *)
(* that range whatever angle was requested, every angle a task computes    *)
(* for a write lies between the angle it started from and its target, and  *)
(* every angle written lies in the range.                                  *)
C12_AnglesInRange ==
  LET lo == 0
      hi == 270 * TicksPerDeg
  IN /\ started => \A c \in Channels : lo <= angles[c] /\ angles[c] <= hi
     /\ \A c \in Channels : hw[c].ang = NONE \/ (lo <= hw[c].ang /\ hw[c].ang <= hi)
     /\ (ret.op = "set_angle" /\ ret.err = 0) => (lo <= ret.val /\ ret.val <= hi)
     /\ \A id \in TaskIds :
          LET t == tasks[id]
          IN /\ (t.st # "free" /\ ~(t.cancel /\ t.st # "writing")) =>
                  (lo <= t.target /\ t.target <= hi)
             /\ t.st = "writing" =>
                  /\ lo <= t.cur /\ t.cur <= hi
                  /\ (t.from <= t.cur /\ t.cur <= t.target)
                       \/ (t.target <= t.cur /\ t.cur <= t.from)

(* a move launched by a request above MAX_DEG is stepping towards MAX_DEG  *)
C12_Witness ==
  /\ started
  /\ \E id \in TaskIds :
       /\ tasks[id].st = "writing"
       /\ tasks[id].n >= 1
       /\ tasks[id].target = 270 * TicksPerDeg
       /\ tasks[id].cur > angles[tasks[id].ch]

(* C13: when release_all has returned normally, every channel's stored     *)
(* angle (what current_state reports) is 0, no channel has a recorded      *)
(* task and the duty last written to every channel is 0; and the call      *)
(* leaves every task that was recorded when it was made ended or with its  *)
(* cancellation requested.                                                 *)
C13_ReleasedAll ==
  /\ [](  (ret.op = "release_all" /\ ret.err = 0) =>
            \A c \in Channels : angles[c] = 0 /\ moveTasks[c] = 0 /\ hw[c].duty = 0)
  /\ [][(ops' = ops + 1 /\ ret'.op = "release_all") =>
          \A c \in Channels :
            moveTasks[c] # 0 =>
              (Pending(tasks'[moveTasks[c]]) => tasks'[moveTasks[c]].cancel)]_vars

(* release_all has returned while a move that had written was in flight    *)
C13_Witness ==
  /\ ret.op = "release_all" /\ ret.err = 0
  /\ started
  /\ \E id \in TaskIds : tasks[id].st = "sleeping" /\ tasks[id].cancel
  /\ \A c \in Channels : angles[c] = 0 /\ hw[c].duty = 0

(* C14: when stop() leaves its zero-write loop, it has attempted the zero   *)
(* write on every configured channel, whether or not a write failed.       *)
C14_ZeroWriteEveryChannel ==
  stopPc = "deinit" =>
    (IF stopExc THEN stopK + 1 ELSE stopK) = Cardinality(DOMAIN CHANNEL_MAP)

(* C15: when stop() has ended, it has returned normally (no exception of   *)
(* a teardown step left it) and the bus connection is closed.              *)
C15_StopReturnsNormally ==
  (stopCalled /\ stopPc = "idle") => (~stopExc /\ ~i2c)

(* C16: a step of stop() taken after a call of stop() has completed (the   *)
(* bus connection is closed) writes nothing, de-initialises no driver,     *)
(* closes nothing, raises nothing and leaves the controller's state        *)
(* unchanged.                                                              *)
C16_StopIdempotent ==
  [][(started /\ ~i2c /\ (stopPc' # stopPc \/ stopK' # stopK))
       => /\ stopPc' \notin {"zero", "deinit"}
          /\ ~stopExc'
          /\ UNCHANGED <<i2c, pcas, hw, angles, speeds, moveTasks, tasks>>]_vars

(* C17: while the controller is started and stop() has not been called,    *)
(* every board address of a configured channel has a registered driver     *)
(* (_pcas maps each address to one driver); the step of start() leaves     *)
(* every channel with stored angle CENTER_ANGLE, stored speed SPEED_DEF,   *)
(* no task, and the centre pulse's duty as the value last written.         *)
C17_DriversRegistered ==
  /\ []((started /\ ~stopCalled) =>
          \A c \in DOMAIN CHANNEL_MAP : pcas[CHANNEL_MAP[c][1]] # "none")
  /\ [][(~started /\ started') =>
          /\ i2c'
          /\ \A a \in DOMAIN pcas' : pcas'[a] = "live"
          /\ \A c \in DOMAIN CHANNEL_MAP :
               /\ angles'[c] = 135 * TicksPerDeg
               /\ speeds'[c] = 90
               /\ moveTasks'[c] = 0
               /\ hw'[c].duty = 4915
          /\ \A id \in TaskIds : tasks'[id].st = "free"]_vars

(* after a recovery whose new driver could not be created, the address     *)
(* still has its one entry (the de-initialised driver)                     *)
C17_Witness ==
  /\ started /\ ~stopCalled
  /\ \E id \in TaskIds : tasks[id].end = "faulted" /\ tasks[id].reinit = 1
  /\ \A a \in Addrs : pcas[a] = "dead"

(* C18: when stop() has ended, no channel has a stored angle, a stored     *)
(* speed or a recorded task.                                               *)
C18_StateClearedByStop ==
  (stopCalled /\ stopPc = "idle") =>
    \A c \in Channels : angles[c] = NONE /\ speeds[c] = NONE /\ moveTasks[c] = 0

(* C19: the step of center_all leaves every configured channel with a     *)
(* newly launched recorded task whose target is CENTER_ANGLE, the move     *)
(* recorded before has its cancellation requested unless it had ended, no  *)
(* stored angle has changed (nothing was waited for), and the call returns *)
(* CENTER_ANGLE without error.                                             *)
C19_CenterAllLaunchesAll ==
  [][(ops' = ops + 1 /\ stopPc' = stopPc /\ ret'.op = "center_all")
       => /\ ret'.err = 0 /\ ret'.val = 135 * TicksPerDeg
          /\ angles' = angles /\ hw' = hw
          /\ \A c \in DOMAIN CHANNEL_MAP :
               /\ moveTasks'[c] # 0
               /\ tasks[moveTasks'[c]].st = "free"
               /\ tasks'[moveTasks'[c]].ch = c
               /\ tasks'[moveTasks'[c]].target = 135 * TicksPerDeg
               /\ tasks'[moveTasks'[c]].st = "created"
               /\ ~tasks'[moveTasks'[c]].cancel
               /\ (moveTasks[c] # 0 /\ Pending(tasks[moveTasks[c]]))
                    => tasks'[moveTasks[c]].cancel]_vars

(* center_all has returned with a channel away from the centre, its        *)
(* previous move cancelled and the new one not yet run                     *)
C19_Witness ==
  /\ ret.op = "center_all"
  /\ started /\ ~stopCalled
  /\ \A c \in Channels : moveTasks[c] # 0 /\ tasks[moveTasks[c]].st = "created"
  /\ \E c \in Channels :
       /\ angles[c] # CENTER_ANGLE
       /\ tasks[moveTasks[c]].sup
       /\ \E id \in IdsOf(c) : tasks[id].st = "sleeping" /\ tasks[id].cancel

C21_DutyIsRounded ==
  LET us == ret.arg[1]
      servo == 500 * us.d <= us.n /\ us.n <= 2500 * us.d /\ ret.arg[2] = 50
  IN /\ (ret.op = "us_to_duty16" /\ servo) =>
          Abs(2 * us.n * 13107 - 2 * ret.val * 4000 * us.d) <= 4000 * us.d
     /\ (ret.op = "us_to_duty" /\ servo) =>
          Abs(2 * us.n * 128 - 2 * ret.val * 625 * us.d) <= 625 * us.d

(* C21, as the code behaves: for a pulse of 500..2500 us at 50 Hz the duty *)
(* is the integer part of us * 50 * multiplier / 1000000: it is at most    *)
(* that value and less than one below it (2500 us gives 8191, not 8192).   *)
C21_DutyIsTruncated ==
  LET us == ret.arg[1]
      servo == 500 * us.d <= us.n /\ us.n <= 2500 * us.d /\ ret.arg[2] = 50
  IN /\ (ret.op = "us_to_duty16" /\ servo) =>
          /\ ret.val * 4000 * us.d <= us.n * 13107
          /\ us.n * 13107 < (ret.val + 1) * 4000 * us.d
     /\ (ret.op = "us_to_duty" /\ servo) =>
          /\ ret.val * 625 * us.d <= us.n * 128
          /\ us.n * 128 < (ret.val + 1) * 625 * us.d

(* 2500 us at 50 Hz: 8191.875 is converted to 8191                         *)
C21_Witness ==
  /\ ret.op = "us_to_duty16"
  /\ ret.arg = <<Frac[2500, 1], 50>>
  /\ ret.val = 8191


(* C22: angle_to_us returns a pulse width within [min_us, max_us] for      *)
(* every angle, exactly min_us for an angle <= 0, exactly max_us for an    *)
(* angle >= max_deg, the linear interpolation in between, and for two      *)
(* angles a <= b the result for a is at most the result for b.             *)
C22_AngleToUsClampedLinear ==
  ret.op \in {"angle_to_us", "angle_to_us_sweep"} =>
    LET a == ret.arg[1]
        b == ret.arg[2]
        min_us == ret.arg[3]
        max_us == ret.arg[4]
        max_deg == ret.arg[5]
        ua == ret.val[1]
        ub == ret.val[2]
    IN /\ min_us * ua.d <= ua.n /\ ua.n <= max_us * ua.d
       /\ a <= 0 => ua = Frac[min_us, 1]
       /\ a >= max_deg => ua = Frac[max_us, 1]
       /\ (0 <= a /\ a <= max_deg) =>
            (ua.n - min_us * ua.d) * max_deg = (max_us - min_us) * a * ua.d
       /\ a <= b => ua.n * ub.d <= ub.n * ua.d

(* -10 degrees on a 270 degree range with 500..2500 us gives 500 us, and   *)
(* 135 degrees gives 1500 us                                               *)
C22_Witness ==
  /\ ret.op = "angle_to_us"
  /\ ret.arg = <<0 - 10, 135, 500, 2500, 270>>
  /\ ret.val = <<Frac[500, 1], Frac[1500, 1]>>


(* number of local channels of the boards of the table whose address is    *)
(* below addr                                                              *)
RECURSIVE IdsBelow(_, _)
IdsBelow(table, addr) ==
  IF table = <<>> THEN 0
  ELSE (IF Head(table)[1] < addr THEN Len(Head(table)[2]) ELSE 0)
       + IdsBelow(Tail(table), addr)

(* C23: the registry built from a layout table has the ids 0, 1, 2, ...    *)
(* up to the number of local channels; the k-th local channel of a board   *)
(* gets the id (number of local channels of the boards with a smaller      *)
(* address) + k - 1, wherever the board stands in the table; and distinct  *)
(* ids map to distinct <<address, local channel>> pairs.                   *)
C23_RegistryAscending ==
  ret.op = "_build_channel_map" =>
    LET table == ret.arg
        map == ret.val
    IN /\ DOMAIN map = 0..(IdsBelow(table, 1000) - 1)
       /\ \A i \in DOMAIN table : \A k \in DOMAIN table[i][2] :
            map[IdsBelow(table, table[i][1]) + k - 1] = <<table[i][1], table[i][2][k]>>
       /\ \A g \in DOMAIN map : \A h \in DOMAIN map : map[g] = map[h] => g = h

(* the boards 0x41 and 0x40, written in this order, with channels 0..3     *)
(* each: ids 0..3 are (0x40, 0..3) and ids 4..7 are (0x41, 0..3)           *)
C23_Witness ==
  /\ ret.op = "_build_channel_map"
  /\ ret.arg = << <<65, <<0, 1, 2, 3>>>>, <<64, <<0, 1, 2, 3>>>> >>
  /\ DOMAIN ret.val = 0..7
  /\ \A g \in 0..3 : ret.val[g] = <<64, g>> /\ ret.val[g + 4] = <<65, g>>


(* C24, as stated: no channel has a recorded task handle whose task has    *)
(* ended (converged, faulted or cancelled): an idle channel has no handle. *)
C24_IdleHasNoHandle ==
  \A c \in Channels : moveTasks[c] # 0 => tasks[moveTasks[c]].st # "done"

(* C24, as the code behaves: a motion step changes no task handle, so the  *)
(* handle of a task that ends by convergence or by fault stays recorded,   *)
(* referring to the ended task; only a task ended by cancellation is never *)
(* recorded (as long as stop() has not been called), its handle having     *)
(* been removed when the cancellation was requested.                       *)
C24_EndedHandleStays ==
  /\ [](~stopCalled =>
          \A c \in Channels :
            moveTasks[c] # 0 => tasks[moveTasks[c]].end # "cancelled")
  /\ [][(running # 0 /\ running' = 0) =>
          /\ moveTasks' = moveTasks
          /\ (moveTasks[tasks[running].ch] = running /\ ~Pending(tasks'[running])) =>
               /\ tasks'[running].st = "done"
               /\ tasks'[running].end \in {"converged", "faulted", "broken"}]_vars

(* a move has converged and another has faulted, nothing was launched      *)
(* since, and both handles are still recorded                              *)
C24_Witness ==
  /\ ~stopCalled
  /\ \E c \in Channels :
       moveTasks[c] # 0 /\ tasks[moveTasks[c]].st = "done"
         /\ tasks[moveTasks[c]].end = "converged"
  /\ \E c \in Channels :
       moveTasks[c] # 0 /\ tasks[moveTasks[c]].st = "done"
         /\ tasks[moveTasks[c]].end = "faulted"


(* C25: when the de-initialisation of the existing driver fails in the     *)
(* recovery of a faulted task, a fresh driver is still created and         *)
(* registered: the step in which a task's recovery block ends at the       *)
(* failed de-initialisation leaves a usable driver registered for the      *)
(* task's board.                                                           *)
C25_DeinitFailureSwallowed ==
  [][\A id \in TaskIds :
       (tasks[id].st = "writing" /\ tasks'[id].rec = "deinit_failed") =>
         pcas'[AddrOf(tasks[id].ch)] = "live"]_vars


(* C26: within one motion task every angle computed for a write lies       *)
(* between the angle the task started from and its target, differs from    *)
(* the task's previous angle (the starting angle for the first write) by   *)
(* at most speed * 0.02 s, and is at least as near to the target as the    *)
(* previous one; and the angle written and stored is the computed one.     *)
C26_MonotoneApproach ==
  [][\A id \in TaskIds :
       LET t == tasks[id]
           u == tasks'[id]
           prev == TaskCur(t)
       IN /\ (t.st \in {"created", "sleeping"} /\ u.st = "writing") =>
               /\ Abs(u.cur - prev) <= (u.dps * TicksPerDeg * 20) \div 1000
               /\ Abs(u.target - u.cur) <= Abs(u.target - prev)
               /\ (u.from <= u.cur /\ u.cur <= u.target)
                    \/ (u.target <= u.cur /\ u.cur <= u.from)
               /\ (prev # u.target) => u.cur # prev
          /\ (t.st = "writing" /\ u.st # "writing" /\ hw' # hw) =>
               /\ hw'[t.ch].ang = t.cur
               /\ angles'[t.ch] = t.cur]_vars

(* a move that takes several steps has reached its target by a last,       *)
(* shorter step                                                            *)
C26_Witness ==
  \E id \in TaskIds :
    /\ tasks[id].st = "writing"
    /\ tasks[id].n >= 2
    /\ tasks[id].cur = tasks[id].target
    /\ ~tasks[id].fin
    /\ Abs(tasks[id].cur - angles[tasks[id].ch]) < StepTicks(tasks[id].dps)
    /\ Abs(tasks[id].cur - angles[tasks[id].ch]) > EPS


(* C27: once stop() has completed normally, and before start() has run,    *)
(* nothing reaches the hardware: no step writes a duty, and no step        *)
(* creates or registers a board driver; the tasks launched by set_angle    *)
(* and center_all end without a write, and release_all writes nothing.     *)
C27_NoHardwareAfterStop ==
  [][((stopCalled /\ stopPc = "idle" /\ ~stopExc) \/ ~started) =>
       (started' = started => (hw' = hw /\ pcas' = pcas))]_vars


(* C28: without faults, set_speed on channel c changes only the stored     *)
(* speed of c (not its stored angle, not its task); set_angle on c changes *)
(* only the task handle and the tasks of c and writes nothing; a motion    *)
(* step of a task of c changes only that task, the stored angle of c and   *)
(* the duty written to c; current_state changes nothing.                   *)
C28_ChannelsIndependent ==
  [][/\ (ops' = ops + 1 /\ ret'.op = "set_speed") =>
          /\ UNCHANGED <<angles, moveTasks, tasks, hw, pcas, i2c, busLock>>
          /\ \A d \in Channels : d # ret'.ch => speeds'[d] = speeds[d]
     /\ (ops' = ops + 1 /\ ret'.op = "set_angle") =>
          /\ UNCHANGED <<angles, speeds, hw, pcas, i2c, busLock>>
          /\ \A d \in Channels :
               d # ret'.ch =>
                 /\ moveTasks'[d] = moveTasks[d]
                 /\ \A id \in IdsOf(d) : tasks'[id] = tasks[id]
     /\ (ops' = ops + 1 /\ ret'.op = "current_state") =>
          /\ UNCHANGED <<angles, speeds, moveTasks, tasks, hw, pcas, i2c, busLock>>
          /\ ret'.val = [angles |-> angles, speeds |-> speeds]
     /\ \A id \in TaskIds :
          (tasks'[id] # tasks[id] /\ ops' = ops) =>
            /\ UNCHANGED <<speeds, moveTasks, pcas, i2c>>
            /\ \A j \in TaskIds : j # id => tasks'[j] = tasks[j]
            /\ \A d \in Channels :
                 d # tasks[id].ch => (angles'[d] = angles[d] /\ hw'[d] = hw[d])]_vars

(* a move of one channel has written while the other channel, whose speed   *)
(* was set by set_speed, is as start() left it                             *)
C28_Witness ==
  \E c \in Channels : \E d \in Channels \ {c} :
    /\ moveTasks[c] # 0 /\ tasks[moveTasks[c]].n >= 1
    /\ angles[c] # CENTER_ANGLE /\ hw[c].ang = angles[c]
    /\ angles[d] = CENTER_ANGLE /\ hw[d] = StartWrite
    /\ speeds[c] = SPEED_DEF_DPS /\ speeds[d] # SPEED_DEF_DPS
    /\ moveTasks[d] = 0

====
